---- MODULE Spec2Model ----
(***************************************************************************)
(* Model of the package migration actions: the shared retry executor       *)
(* (withRetry), the version enumerator (fetchPackageVersions), the npm and *)
(* container package migrators (migratePackage) and the orchestrator       *)
(* (migratePackagesWithContext / outputResults).                           *)
(***************************************************************************)
EXTENDS Integers, Sequences, FiniteSets, TLC

\* ---------------------------------------------------------------------
\* Bounds of the model
\* ---------------------------------------------------------------------
\* Packages in the list handed to the orchestrator.
MaxPkgs == 2
\* Versions / references the source registry holds over all packages of a run.
MaxTransfers == 3
\* Largest options.retries a caller of withRetry passes.
MaxRetriesOpt == 2
\* Versions per page of the listing (per_page).
PageSize == 1

\* ---------------------------------------------------------------------
\* Program constants
\* ---------------------------------------------------------------------
Undef == -1

DEFAULT_RETRY_CONFIG ==
  [retries |-> 3, minTimeout |-> 1000, maxTimeout |-> 10000, factor |-> 2]

\* Package names are unique within the list; package i is called Names[i].
Names == <<"a", "b", "c", "d">>

\* ---------------------------------------------------------------------
\* Values: errors and operation outcomes
\* ---------------------------------------------------------------------
NoErr == [class |-> "none", msg |-> "none"]

Err(c, m) == [class |-> c, msg |-> m]

Value(v) == [kind |-> "value", val |-> v, err |-> NoErr]

Thrown(e) == [kind |-> "thrown", val |-> FALSE, err |-> e]

\* What one invocation of an arbitrary operation handed to withRetry can do.
ErrorClasses == {"AuthenticationError", "PackageNotFoundError", "Error"}

ErrorMsgs == {"m1", "m2"}

HarnessOutcomes ==
  {Value(TRUE)} \cup {Thrown(Err(c, m)) : c \in ErrorClasses, m \in ErrorMsgs}

HarnessOptions ==
  {[onRetry |-> b] : b \in BOOLEAN}
    \cup {[retries |-> n, onRetry |-> b] : n \in 0..MaxRetriesOpt, b \in BOOLEAN}

\* ---------------------------------------------------------------------
\* Filesystem paths
\* ---------------------------------------------------------------------
Path(p, v, s) == [pkg |-> p, ver |-> v, sub |-> s]

TempDir == Path("", 0, "")

NpmrcPath == Path("", 0, ".npmrc")

VersionDir(p, v) == Path(p, v, "")

PackageDir(p, v) == Path(p, v, "package")

UnderMutant(path, dir) == TRUE

\* fs.rmSync(dir, {recursive: true}) removes dir and everything below it.
Under(path, dir) ==
  \/ dir = TempDir
  \/ path.pkg = dir.pkg /\ path.ver = dir.ver /\ (dir.sub = "" \/ path.sub = dir.sub)

VARIABLES
  kind, npmModule, exitCode, packages, pc, idx, refs, vidx, tally, results,
  returned, outputSet, output, summary, status, warned, resources, disk,
  rpc, rcfg, attemptNumber, opLog, onRetryLog, sleeps, rerr, rout,
  invoked, enumLog, attempted, attemptedLog, totalOk, totalBad, answer, call,
  setupLog, app

orchVars ==
  <<kind, npmModule, exitCode, packages, pc, idx, refs, vidx, tally, results,
    returned, outputSet, output, summary, status, warned>>

fsVars == <<resources, disk>>

retryVars == <<rpc, rcfg, attemptNumber, opLog, onRetryLog, sleeps, rerr, rout>>

ghostVars ==
  <<invoked, enumLog, attempted, attemptedLog, totalOk, totalBad, answer, call,
    setupLog, app>>

vars == <<orchVars, fsVars, retryVars, ghostVars>>

\* ---------------------------------------------------------------------
\* Resource tracker
\* ---------------------------------------------------------------------
trackResourceMutant(set, resource) ==
  IF resource \in set THEN set \ {resource} ELSE set \cup {resource}

\* resources.add(resource); the function returns resource.
trackResource(set, resource) == set \cup {resource}

RmSyncMutant(d, dir) == d

RmSync(d, dir) == {p \in d : ~Under(p, dir)}

cleanupResourceDiskMutant(d, resource) == d

\* cleanupResource: remove from disk if present, then untrack.
cleanupResourceDisk(d, resource) ==
  IF resource \in d THEN RmSync(d, resource) ELSE d

cleanupResourceSetMutant(set, resource) == set

cleanupResourceSet(set, resource) == set \ {resource}

\* What fs.rmSync(resource, {recursive: true, force: true}) does on a path that
\* exists: it removes it, or raises an I/O error (force only silences ENOENT).
RmOutcomes == {"ok", "EACCES"}

\* cleanupResource as a whole: the disk and the tracked set it leaves, and
\* whether it threw. There is no try around rmSync: when rmSync raises, the
\* error leaves cleanupResource before resources.delete is reached.
cleanupResource(d, set, resource, io) ==
  IF resource \in d /\ io # "ok"
    THEN [disk |-> d, resources |-> set, threw |-> TRUE]
    ELSE [disk |-> cleanupResourceDisk(d, resource),
          resources |-> cleanupResourceSet(set, resource),
          threw |-> FALSE]

\* cleanupTempDir(dirPath) is cleanupResource(dirPath).
cleanupTempDirMutant(d, set, dirPath, io) == [disk |-> d, resources |-> set, threw |-> FALSE]

cleanupTempDir(d, set, dirPath, io) == cleanupResource(d, set, dirPath, io)

\* The orders in which for (const resource of resources) can visit the set
\* (insertion order, which the set of the model does not record).
Orders(set) ==
  {q \in [1..Cardinality(set) -> set] : \A i, j \in 1..Cardinality(set) : q[i] = q[j] => i = j}

RECURSIVE SetToSeq(_)
SetToSeq(set) ==
  IF set = {} THEN <<>>
  ELSE LET x == CHOOSE y \in set : TRUE IN <<x>> \o SetToSeq(set \ {x})

\* cleanupAllResources: cleanupResource for every tracked path, in the order
\* given; failing is the set of paths whose removal raises an I/O error. The
\* loop has no try: the first error ends it.
RECURSIVE cleanupAllResources(_, _, _, _)
cleanupAllResources(d, set, order, failing) ==
  IF Len(order) = 0
    THEN [disk |-> d, resources |-> set, threw |-> FALSE]
    ELSE LET r == cleanupResource(d, set, Head(order),
                                  IF Head(order) \in failing THEN "EACCES" ELSE "ok")
         IN IF r.threw THEN r
            ELSE cleanupAllResources(r.disk, r.resources, Tail(order), failing)

\* The last call made on the resource tracker: its argument, whether the
\* argument was tracked when the call was made, what it returned, the paths
\* whose removal raised an I/O error during it, and whether it threw.
TrackerCall(op, arg, was, failing, threw) ==
  [op |-> op, arg |-> arg, was |-> was, ret |-> arg, failing |-> failing, threw |-> threw]

NoCall == TrackerCall("none", TempDir, FALSE, {}, FALSE)

\* One application of a function of the program to an argument: the function,
\* the argument and, once it has been applied, what it returned.
Application(fn, arg) == [fn |-> fn, arg |-> arg, done |-> FALSE, ret |-> <<>>]

NoApp == Application("none", <<>>)

\* ---------------------------------------------------------------------
\* Retry executor
\* ---------------------------------------------------------------------
RECURSIVE Pow(_, _)
Pow(b, e) == IF e = 0 THEN 1 ELSE b * Pow(b, e - 1)

Min(a, b) == IF a <= b THEN a ELSE b

\* const config = { ...DEFAULT_RETRY_CONFIG, ...options }
RetryConfig(options) == options @@ DEFAULT_RETRY_CONFIG @@ [onRetry |-> FALSE]

\* Delay before the retry that follows failed attempt n.
Backoff(cfg, n) == Min(cfg.maxTimeout, cfg.minTimeout * Pow(cfg.factor, n - 1))

IsPermanentMutant(e) == FALSE

IsPermanent(e) == e.class \in {"AuthenticationError", "PackageNotFoundError"}

WrappedOperationMutant(o) ==
  IF o.kind = "thrown" THEN Thrown(Err("AbortError", o.err.msg)) ELSE o

\* The function handed to pRetry: run the operation, turn a permanent error
\* into an AbortError carrying only the message, rethrow anything else.
WrappedOperation(o) ==
  IF o.kind = "thrown" /\ IsPermanent(o.err)
    THEN Thrown(Err("AbortError", o.err.msg))
    ELSE o

RetryBegin(options) ==
  /\ rcfg' = RetryConfig(options)
  /\ rpc' = "call"
  /\ attemptNumber' = 1
  /\ opLog' = <<>>
  /\ onRetryLog' = <<>>
  /\ sleeps' = <<>>
  /\ rerr' = NoErr
  /\ rout' = Value(FALSE)

\* The record of one invocation: the outcome; inside a migration the error
\* message is left out of the record (the error itself is in rerr).
Logged(o) ==
  IF pc = "harness" \/ o.kind = "value" THEN o ELSE Thrown(Err(o.err.class, ""))

\* The retry executor is not running.
RetryIdle ==
  /\ rpc' = "idle"
  /\ attemptNumber' = 1
  /\ opLog' = <<>>
  /\ onRetryLog' = <<>>
  /\ sleeps' = <<>>
  /\ rerr' = NoErr
  /\ rout' = Value(FALSE)
  /\ UNCHANGED rcfg

\* One invocation of the operation with outcome o, as pRetry sees it.
RetryCall(o) ==
  /\ rpc = "call"
  /\ opLog' = Append(opLog, Logged(o))
  /\ LET w == WrappedOperation(o) IN
       IF w.kind = "value"
         THEN /\ rpc' = "resolved"
              /\ rout' = w
              /\ rerr' = rerr
         ELSE IF w.err.class = "AbortError"
           THEN /\ rpc' = "rejected"
                /\ rout' = Thrown(Err("Error", w.err.msg))
                /\ rerr' = rerr
           ELSE /\ rpc' = "failed"
                /\ rerr' = w.err
                /\ rout' = rout
  /\ UNCHANGED <<rcfg, attemptNumber, onRetryLog, sleeps>>

RetriesLeftMutant == rcfg.retries - attemptNumber

RetriesLeft == rcfg.retries - (attemptNumber - 1)

\* onFailedAttempt: call the onRetry observer, then either schedule the next
\* attempt or give up with the last error.
OnFailedAttempt ==
  /\ rpc = "failed"
  /\ onRetryLog' = IF rcfg.onRetry THEN Append(onRetryLog, attemptNumber) ELSE onRetryLog
  /\ IF RetriesLeft > 0
       THEN /\ rpc' = "sleep"
            /\ rout' = rout
       ELSE /\ rpc' = "rejected"
            /\ rout' = Thrown(rerr)
  /\ rerr' = NoErr
  /\ UNCHANGED <<rcfg, attemptNumber, opLog, sleeps>>

RetrySleep ==
  /\ rpc = "sleep"
  /\ sleeps' = Append(sleeps, Backoff(rcfg, attemptNumber))
  /\ attemptNumber' = attemptNumber + 1
  /\ rpc' = "call"
  /\ UNCHANGED <<rcfg, opLog, onRetryLog, rerr, rout>>

\* ---------------------------------------------------------------------
\* withRetry on its own, driven by an arbitrary operation
\* ---------------------------------------------------------------------
InitRetry ==
  /\ kind = "none"
  /\ npmModule = "none"
  /\ exitCode = Undef
  /\ packages = <<>>
  /\ pc = "harness"
  /\ idx = 0
  /\ refs = <<>>
  /\ vidx = 0
  /\ tally = <<>>
  /\ results = <<>>
  /\ returned = <<>>
  /\ outputSet = FALSE
  /\ output = <<>>
  /\ summary = <<>>
  /\ status = "none"
  /\ warned = FALSE
  /\ resources = {}
  /\ disk = {}
  /\ \E options \in HarnessOptions : rcfg = RetryConfig(options)
  /\ rpc = "call"
  /\ attemptNumber = 1
  /\ opLog = <<>>
  /\ onRetryLog = <<>>
  /\ sleeps = <<>>
  /\ rerr = NoErr
  /\ rout = Value(FALSE)
  /\ invoked = <<>>
  /\ enumLog = <<>>
  /\ attempted = 0
  /\ attemptedLog = <<>>
  /\ totalOk = 0
  /\ totalBad = 0
  /\ answer = "none"
  /\ call = NoCall
  /\ setupLog = <<>>
  /\ app = NoApp

withRetry_operation ==
  /\ pc = "harness"
  /\ \E o \in HarnessOutcomes : RetryCall(o)
  /\ UNCHANGED <<orchVars, fsVars, ghostVars>>

withRetry_onFailedAttempt ==
  /\ pc = "harness"
  /\ OnFailedAttempt
  /\ UNCHANGED <<orchVars, fsVars, ghostVars>>

withRetry_backoff ==
  /\ pc = "harness"
  /\ RetrySleep
  /\ UNCHANGED <<orchVars, fsVars, ghostVars>>

NextRetry == withRetry_operation \/ withRetry_onFailedAttempt \/ withRetry_backoff

SpecRetry == InitRetry /\ [][NextRetry]_vars

SpecRetryFair == SpecRetry /\ WF_vars(NextRetry)

\* ---------------------------------------------------------------------
\* The resource tracker on its own, driven by arbitrary calls
\* ---------------------------------------------------------------------
TrackerPaths == {TempDir, NpmrcPath, VersionDir("a", 1), PackageDir("a", 1)}

Ancestors(path) == {q \in TrackerPaths : q # path /\ Under(path, q)}

InitTracker ==
  /\ kind = "none"
  /\ npmModule = "none"
  /\ exitCode = Undef
  /\ packages = <<>>
  /\ pc = "tracker"
  /\ idx = 0
  /\ refs = <<>>
  /\ vidx = 0
  /\ tally = <<>>
  /\ results = <<>>
  /\ returned = <<>>
  /\ outputSet = FALSE
  /\ output = <<>>
  /\ summary = <<>>
  /\ status = "none"
  /\ warned = FALSE
  /\ resources = {}
  /\ disk = {}
  /\ rcfg = RetryConfig([onRetry |-> FALSE])
  /\ rpc = "idle"
  /\ attemptNumber = 1
  /\ opLog = <<>>
  /\ onRetryLog = <<>>
  /\ sleeps = <<>>
  /\ rerr = NoErr
  /\ rout = Value(FALSE)
  /\ invoked = <<>>
  /\ enumLog = <<>>
  /\ attempted = 0
  /\ attemptedLog = <<>>
  /\ totalOk = 0
  /\ totalBad = 0
  /\ answer = "none"
  /\ call = NoCall
  /\ setupLog = <<>>
  /\ app = NoApp

trackerFrame ==
  UNCHANGED <<orchVars, retryVars, invoked, enumLog, attempted, attemptedLog,
              totalOk, totalBad, answer, setupLog, app>>

\* A caller creates a file or directory (mkdirSync / writeFileSync) inside
\* an existing directory.
tracker_create ==
  /\ pc = "tracker"
  /\ \E path \in TrackerPaths \ disk :
       /\ Ancestors(path) \subseteq disk
       /\ disk' = disk \cup {path}
       /\ call' = TrackerCall("create", path, path \in resources, {}, FALSE)
  /\ UNCHANGED resources
  /\ trackerFrame

tracker_trackResource ==
  /\ pc = "tracker"
  /\ \E resource \in TrackerPaths :
       /\ resources' = trackResource(resources, resource)
       /\ call' = TrackerCall("trackResource", resource, resource \in resources, {}, FALSE)
  /\ UNCHANGED disk
  /\ trackerFrame

tracker_cleanupResource ==
  /\ pc = "tracker"
  /\ \E resource \in TrackerPaths :
     \E io \in IF resource \in disk THEN RmOutcomes ELSE {"ok"} :
       LET r == cleanupResource(disk, resources, resource, io) IN
         /\ disk' = r.disk
         /\ resources' = r.resources
         /\ call' = TrackerCall("cleanupResource", resource, resource \in resources,
                                IF io = "ok" THEN {} ELSE {resource}, r.threw)
  /\ trackerFrame

tracker_cleanupAllResources ==
  /\ pc = "tracker"
  /\ \E order \in Orders(resources) :
     \E failing \in SUBSET (resources \cap disk) :
       LET r == cleanupAllResources(disk, resources, order, failing) IN
         /\ disk' = r.disk
         /\ resources' = r.resources
         /\ call' = TrackerCall("cleanupAllResources", TempDir, FALSE, failing, r.threw)
  /\ trackerFrame

NextTracker ==
  \/ tracker_create
  \/ tracker_trackResource
  \/ tracker_cleanupResource
  \/ tracker_cleanupAllResources

SpecTracker == InitTracker /\ [][NextTracker]_vars

\* ---------------------------------------------------------------------
\* Version enumerator
\* ---------------------------------------------------------------------
\* A version as listed by the registry: its name and, for containers, its tags.
Version(n, t) == [name |-> n, tags |-> [j \in 1..t |-> 10 * n + j]]

TagCounts(k, budget) == IF k = "container" THEN 0..budget ELSE {0}

RECURSIVE RefCount(_)
RefCount(vs) == IF Len(vs) = 0 THEN 0 ELSE 1 + Len(vs[1].tags) + RefCount(Tail(vs))

\* The version lists of a package that holds at most budget references.
VersionLists(k, budget) ==
  {vs \in UNION {{[i \in 1..n |-> Version(i, ts[i])] : ts \in [1..n -> TagCounts(k, budget - n)]} :
                   n \in 0..budget} :
     RefCount(vs) <= budget}

NumPages(vs) == IF Len(vs) = 0 THEN 1 ELSE (Len(vs) + PageSize - 1) \div PageSize

Page(vs, p) == SubSeq(vs, (p - 1) * PageSize + 1, Min(Len(vs), p * PageSize))

ListingErrors == {"401", "404", "500", "ECONNRESET"}

\* What the registry answers to the paginated listing: every page up to
\* failAt - 1 is served, page failAt fails (0: no page fails).
Responses(k, budget) ==
  UNION {{[versions |-> vs, failAt |-> 0, err |-> "none"]}
           \cup {[versions |-> vs, failAt |-> f, err |-> e] :
                   f \in 1..NumPages(vs), e \in ListingErrors} :
         vs \in VersionLists(k, budget)}

RECURSIVE paginate(_, _, _)
paginate(resp, p, acc) ==
  IF p > NumPages(resp.versions)
    THEN [ok |-> TRUE, items |-> acc, err |-> NoErr]
    ELSE IF resp.failAt = p
      THEN [ok |-> FALSE, items |-> <<>>, err |-> Err("Error", resp.err)]
      ELSE paginate(resp, p + 1, acc \o Page(resp.versions, p))

ListingFails(resp) == ~paginate(resp, 1, <<>>).ok

fetchPackageVersionsMutant(resp) == resp.versions

fetchPackageVersions(resp) ==
  LET r == paginate(resp, 1, <<>>) IN IF r.ok THEN r.items ELSE <<>>

\* ---------------------------------------------------------------------
\* Package results and the final report
\* ---------------------------------------------------------------------
NoOptions ==
  [skipped |-> FALSE, reason |-> "", digestsSucceeded |-> Undef,
   digestsFailed |-> Undef, tagsSucceeded |-> Undef, tagsFailed |-> Undef]

Or0(x) == IF x = Undef THEN 0 ELSE x

createPackageResultMutant(packageName, succeeded, failed, options) ==
  [package |-> packageName,
   succeeded |-> succeeded,
   failed |-> failed,
   skipped |-> FALSE,
   reason |-> "",
   digestsSucceeded |-> options.digestsSucceeded,
   digestsFailed |-> IF options.digestsSucceeded # Undef THEN Or0(options.digestsFailed) ELSE Undef,
   tagsSucceeded |-> options.tagsSucceeded,
   tagsFailed |-> IF options.tagsSucceeded # Undef THEN Or0(options.tagsFailed) ELSE Undef]

createPackageResult(packageName, succeeded, failed, options) ==
  [package |-> packageName,
   succeeded |-> succeeded,
   failed |-> failed,
   skipped |-> options.skipped,
   reason |-> IF options.skipped
                THEN (IF options.reason = "" THEN "No versions found" ELSE options.reason)
                ELSE "",
   digestsSucceeded |-> options.digestsSucceeded,
   digestsFailed |-> IF options.digestsSucceeded # Undef THEN Or0(options.digestsFailed) ELSE Undef,
   tagsSucceeded |-> options.tagsSucceeded,
   tagsFailed |-> IF options.tagsSucceeded # Undef THEN Or0(options.tagsFailed) ELSE Undef]

buildSkipResultMutant(k, packageName) ==
  createPackageResult(packageName, 0, 1, [NoOptions EXCEPT !.skipped = TRUE])

\* buildSkipResult of the npm migrator and of the container migrator.
buildSkipResult(k, packageName) ==
  IF k = "container"
    THEN createPackageResult(packageName, 0, 0,
           [skipped |-> TRUE, reason |-> "No versions found", digestsSucceeded |-> 0,
            digestsFailed |-> 0, tagsSucceeded |-> 0, tagsFailed |-> 0])
    ELSE createPackageResult(packageName, 0, 0,
           [NoOptions EXCEPT !.skipped = TRUE, !.reason = "No versions found"])

ZeroTally ==
  [successCount |-> 0, failureCount |-> 0, digestsSucceeded |-> 0,
   digestsFailed |-> 0, tagsSucceeded |-> 0, tagsFailed |-> 0]

npmTallyMutant(t, success) ==
  IF success THEN [t EXCEPT !.successCount = @ + 1] ELSE t

\* success ? successCount++ : failureCount++
npmTally(t, success) ==
  IF success THEN [t EXCEPT !.successCount = @ + 1]
             ELSE [t EXCEPT !.failureCount = @ + 1]

updateReferenceResultsMutant(t, success, isDigest) ==
  LET u == npmTally(t, success) IN
    IF success
      THEN IF isDigest THEN [u EXCEPT !.digestsSucceeded = @ + 1]
                       ELSE [u EXCEPT !.tagsSucceeded = @ + 1]
      ELSE [u EXCEPT !.digestsFailed = @ + 1]

updateReferenceResults(t, success, isDigest) ==
  LET u == npmTally(t, success) IN
    IF success
      THEN IF isDigest THEN [u EXCEPT !.digestsSucceeded = @ + 1]
                       ELSE [u EXCEPT !.tagsSucceeded = @ + 1]
      ELSE IF isDigest THEN [u EXCEPT !.digestsFailed = @ + 1]
                       ELSE [u EXCEPT !.tagsFailed = @ + 1]

\* The PackageResult a migrator returns once every version has been tallied.
packageResult(k, packageName, t) ==
  IF k = "container"
    THEN createPackageResult(packageName, t.successCount, t.failureCount,
           [NoOptions EXCEPT !.digestsSucceeded = t.digestsSucceeded,
                             !.digestsFailed = t.digestsFailed,
                             !.tagsSucceeded = t.tagsSucceeded,
                             !.tagsFailed = t.tagsFailed])
    ELSE createPackageResult(packageName, t.successCount, t.failureCount, NoOptions)

RECURSIVE SumField(_, _)
SumField(rs, f) ==
  IF Len(rs) = 0 THEN 0 ELSE Or0(rs[1][f]) + SumField(Tail(rs), f)

IsSkipped(r) == r.skipped

TotalsMutant(rs) ==
  [packages |-> Len(rs),
   success |-> IF Len(rs) = 0 THEN 0 ELSE Len(rs) * Or0(rs[1].succeeded),
   failed |-> SumField(rs, "failed"),
   skipped |-> Len(SelectSeq(rs, IsSkipped))]

Totals(rs) ==
  [packages |-> Len(rs),
   success |-> SumField(rs, "succeeded"),
   failed |-> SumField(rs, "failed"),
   skipped |-> Len(SelectSeq(rs, IsSkipped))]

\* One line of the per-package list of generateActionSummary.
SummaryItem(k, r) ==
  [package |-> r.package,
   disposition |-> IF r.skipped THEN "SKIPPED"
                   ELSE IF k = "container" /\ r.digestsSucceeded # Undef THEN "COUNTS_BREAKDOWN"
                   ELSE "COUNTS",
   reason |-> IF r.skipped THEN (IF r.reason = "" THEN "No reason provided" ELSE r.reason) ELSE "",
   succeeded |-> IF r.skipped THEN Undef ELSE r.succeeded,
   failed |-> IF r.skipped THEN Undef ELSE r.failed]

generateActionSummary(k, rs) == [i \in 1..Len(rs) |-> SummaryItem(k, rs[i])]

JobStatusMutant(totals) ==
  IF totals.failed > 0 THEN "all_failed" ELSE "none"

\* Set job status based on results.
JobStatus(totals) ==
  IF totals.failed > 0 /\ totals.success = 0 THEN "all_failed"
  ELSE IF totals.failed > 0 THEN "warning"
  ELSE "none"

\* ---------------------------------------------------------------------
\* Container references
\* ---------------------------------------------------------------------
\* version.metadata?.container?.tags || []: a version listed without tag
\* metadata is a record without the field.
TagsOf(v) == IF "tags" \in DOMAIN v THEN v.tags ELSE <<>>

parseVersionsMutant(versions) ==
  [i \in 1..Len(versions) |-> [reference |-> versions[i].name, isDigest |-> TRUE]]

RECURSIVE parseVersions(_)
parseVersions(versions) ==
  IF Len(versions) = 0 THEN <<>>
  ELSE LET v == versions[1]
           tags == TagsOf(v)
       IN
         <<[reference |-> v.name, isDigest |-> TRUE]>>
           \o [j \in 1..Len(tags) |-> [reference |-> tags[j], isDigest |-> FALSE]]
           \o parseVersions(Tail(versions))

versionNames(versions) ==
  [i \in 1..Len(versions) |-> [reference |-> versions[i].name, isDigest |-> FALSE]]

SkopeoOutcomes == {"ok", "unauthorized", "not found", "other"}

\* executeSkopeoCommand: true when the copy tool exits 0, false otherwise.
executeSkopeoCommandMutant(tool) == tool \in {"ok", "not found"}

executeSkopeoCommand(tool) == tool = "ok"

performImageMigration(tool) == Value(executeSkopeoCommand(tool))

\* ---------------------------------------------------------------------
\* npm transfer pipeline
\* ---------------------------------------------------------------------
ManifestOutcomes == {"url", "missing", "401", "404", "500"}

DownloadOutcomes == {"ok", "401", "404", "500"}

MetadataOutcomes == {"ok", "throw"}

fetchPackageManifestMutant(m) ==
  IF m = "url" THEN Value(TRUE) ELSE Thrown(Err("Error", m))

\* fetchPackageManifest: the tarball URL, null when the version has no entry
\* in the manifest, or the request's error rethrown.
fetchPackageManifest(m) ==
  IF m = "url" THEN Value(TRUE)
  ELSE IF m = "missing" THEN Value(FALSE)
  ELSE Thrown(Err("Error", m))

\* The calls of the npm pipeline, in the order of the source.
NpmSteps ==
  <<"fetchPackageManifest", "downloadAndExtractPackage", "updatePackageMetadata",
    "publishToRegistry">>

processPackageVersionMutant(m, d, u, p) ==
  LET mf == fetchPackageManifest(m)
      to(k) == SubSeq(NpmSteps, 1, k)
  IN
    IF mf.kind = "thrown" THEN [out |-> mf, wrote |-> FALSE, tracked |-> FALSE, steps |-> to(1)]
    ELSE IF ~mf.val THEN [out |-> Value(FALSE), wrote |-> FALSE, tracked |-> FALSE, steps |-> to(1)]
    ELSE IF d # "ok"
      THEN [out |-> Thrown(Err("Error", d)), wrote |-> FALSE, tracked |-> FALSE, steps |-> to(2)]
    ELSE [out |-> Value(p), wrote |-> TRUE, tracked |-> TRUE, steps |-> to(4)]

\* processPackageVersion: manifest, download and extract, metadata, publish.
\* wrote: the package directory was (partly) extracted into the workspace;
\* tracked: trackResource(packageDir) was reached; steps: the calls made.
processPackageVersion(m, d, u, p) ==
  LET mf == fetchPackageManifest(m)
      to(k) == SubSeq(NpmSteps, 1, k)
  IN
    IF mf.kind = "thrown" THEN [out |-> mf, wrote |-> FALSE, tracked |-> FALSE, steps |-> to(1)]
    ELSE IF ~mf.val THEN [out |-> Value(FALSE), wrote |-> FALSE, tracked |-> FALSE, steps |-> to(1)]
    ELSE IF d # "ok"
      THEN [out |-> Thrown(Err("Error", d)), wrote |-> FALSE, tracked |-> FALSE, steps |-> to(2)]
    ELSE IF u # "ok"
      THEN [out |-> Thrown(Err("Error", "metadata")), wrote |-> TRUE, tracked |-> TRUE,
            steps |-> to(3)]
    ELSE [out |-> Value(p), wrote |-> TRUE, tracked |-> TRUE, steps |-> to(4)]

\* processPackageVersion of package.js: the same steps inside try / catch;
\* whatever a step throws is logged and the function returns false.
package_processPackageVersion(m, d, u, p) ==
  LET r == processPackageVersion(m, d, u, p) IN
    IF r.out.kind = "thrown" THEN [r EXCEPT !.out = Value(FALSE)] ELSE r

\* The two builds of the npm action in the repository: the pipeline written
\* in index.js and the pipeline of package.js.
NpmModules == {"index.js", "package.js"}

\* What the registries and tools did during one invocation of the pipeline.
Answer(m, d, u, p) ==
  IF m # "url" THEN m
  ELSE IF d # "ok" THEN d
  ELSE IF u # "ok" THEN "metadata"
  ELSE IF p THEN "published" ELSE "publish failed"

\* setupVersionWorkspace
setupVersionWorkspaceDisk(d, versionDir) ==
  (IF versionDir \in d THEN cleanupResourceDisk(d, versionDir) ELSE d) \cup {versionDir}

setupVersionWorkspaceSet(set, d, versionDir) ==
  trackResource(IF versionDir \in d THEN cleanupResourceSet(set, versionDir) ELSE set, versionDir)

resetWorkspaceDiskMutant(d, versionDir) == d

\* The onRetry observer of migrateVersion (resetWorkspace): cleanupTempDir,
\* mkdirSync, trackResource.
resetWorkspaceDisk(d, versionDir) == cleanupResourceDisk(d, versionDir) \cup {versionDir}

resetWorkspaceSetMutant(set, versionDir) == cleanupResourceSet(set, versionDir)

resetWorkspaceSet(set, versionDir) ==
  trackResource(cleanupResourceSet(set, versionDir), versionDir)

\* ---------------------------------------------------------------------
\* Orchestrator: migratePackagesWithContext over the npm / container migrator
\* ---------------------------------------------------------------------
PackageLists == {[i \in 1..n |-> [name |-> Names[i]]] : n \in 0..MaxPkgs}

Init ==
  /\ kind \in {"npm", "container"}
  /\ npmModule \in (IF kind = "npm" THEN NpmModules ELSE {"none"})
  /\ exitCode = Undef
  /\ packages \in PackageLists
  /\ pc = "run"
  /\ idx = 0
  /\ refs = <<>>
  /\ vidx = 0
  /\ tally = ZeroTally
  /\ results = <<>>
  /\ returned = <<>>
  /\ outputSet = FALSE
  /\ output = <<>>
  /\ summary = <<>>
  /\ status = "none"
  /\ warned = FALSE
  /\ resources = {}
  /\ disk = {}
  /\ rcfg = RetryConfig([onRetry |-> TRUE])
  /\ rpc = "idle"
  /\ attemptNumber = 1
  /\ opLog = <<>>
  /\ onRetryLog = <<>>
  /\ sleeps = <<>>
  /\ rerr = NoErr
  /\ rout = Value(FALSE)
  /\ invoked = <<>>
  /\ enumLog = <<>>
  /\ attempted = 0
  /\ attemptedLog = <<>>
  /\ totalOk = 0
  /\ totalBad = 0
  /\ answer = "none"
  /\ call = NoCall
  /\ setupLog = <<>>
  /\ app = NoApp

pkgName == packages[idx].name

RECURSIVE SumSeq(_)
SumSeq(q) == IF Len(q) = 0 THEN 0 ELSE q[1] + SumSeq(Tail(q))

\* References the registry can still hold for the packages not yet listed.
Budget == MaxTransfers - SumSeq(attemptedLog)

curDir == VersionDir(pkgName, refs[vidx].reference)

NothingToMigrateMutant(pkgs) == FALSE

\* if (packages.length === 0): the check run makes right after parsing.
NothingToMigrate(pkgs) == Len(pkgs) = 0

\* What run sets up, in order, before it hands over to the migration core.
SetupSteps(k) ==
  IF k = "npm"
    THEN <<"createTempDir", "setupContext", "setupNpmAuthentication">>
    ELSE <<"checkDockerInstallation", "setupSkopeo", "setupContext">>

\* The step of the setup that throws (0: none does).
SetupFailures == 0..3

AfterSetupMutant(f) == "start"

\* Where run goes on after the setup: a step that throws lands in the catch
\* block, past the call of migratePackagesWithContext.
AfterSetup(f) == IF f = 0 THEN "start" ELSE "done"

\* run up to the call of migratePackagesWithContext: an empty list is
\* reported at once; otherwise the setup steps run in order, the first one
\* that throws lands in the catch block (core.setFailed). The npm action
\* creates and tracks its temporary directory, then writes and tracks the
\* credential file inside it (setupNpmAuthentication).
run ==
  /\ pc = "run"
  /\ IF NothingToMigrate(packages)
       THEN /\ outputSet' = TRUE
            /\ output' = <<>>
            /\ pc' = "done"
            /\ UNCHANGED <<status, setupLog, fsVars>>
       ELSE \E f \in SetupFailures :
              LET steps == SetupSteps(kind)
                  made  == kind = "npm" /\ f # 1
                  wrote == kind = "npm" /\ f = 0
              IN
                /\ setupLog' = IF f = 0 THEN steps ELSE SubSeq(steps, 1, f)
                /\ disk' = disk \cup (IF made THEN {TempDir} ELSE {})
                                 \cup (IF wrote THEN {NpmrcPath} ELSE {})
                /\ resources' =
                     LET t == IF made THEN trackResource(resources, TempDir) ELSE resources
                     IN IF wrote THEN trackResource(t, NpmrcPath) ELSE t
                /\ status' = IF f = 0 THEN status ELSE "action_failed"
                /\ pc' = AfterSetup(f)
                /\ UNCHANGED <<outputSet, output>>
  /\ UNCHANGED <<kind, npmModule, exitCode, packages, idx, refs, vidx, tally, results,
                 returned, summary, warned>>
  /\ UNCHANGED <<retryVars, invoked, enumLog, attempted, attemptedLog, totalOk, totalBad,
                 answer, call, app>>

\* migratePackagesWithContext up to the first call of migratePackageFn.
migratePackagesWithContext ==
  /\ pc = "start"
  /\ IF Len(packages) = 0
       THEN /\ outputSet' = TRUE
            /\ output' = <<>>
            /\ returned' = <<>>
            /\ pc' = "done"
            /\ UNCHANGED <<idx, results>>
       ELSE /\ results' = <<>>
            /\ idx' = 1
            /\ pc' = "package"
            /\ UNCHANGED <<outputSet, output, returned>>
  /\ UNCHANGED <<kind, npmModule, exitCode, packages, refs, vidx, tally, summary, status, warned>>
  /\ UNCHANGED <<fsVars, retryVars, ghostVars>>

\* results.push(result), then the next iteration of the loop or the report.
PushResult(r) ==
  /\ results' = Append(results, r)
  /\ attemptedLog' = Append(attemptedLog, attempted')
  /\ IF idx = Len(packages)
       THEN pc' = "output" /\ idx' = idx
       ELSE pc' = "package" /\ idx' = idx + 1

\* migrateVersion up to the first invocation of the operation (npm), or the
\* withRetry call of migrateReferences (container).
BeginTransfer(d, set, versionDir) ==
  /\ RetryBegin([onRetry |-> TRUE])
  /\ disk' = IF kind = "npm" THEN setupVersionWorkspaceDisk(d, versionDir) ELSE d
  /\ resources' = IF kind = "npm" THEN setupVersionWorkspaceSet(set, d, versionDir) ELSE set

\* migratePackage: enumerate the versions; skip result when there are none,
\* otherwise start on the first version / reference.
migratePackage ==
  /\ pc = "package"
  /\ \E resp \in Responses(kind, Budget) :
       LET versions == fetchPackageVersions(resp)
           rs == IF kind = "container" THEN parseVersions(versions) ELSE versionNames(versions)
       IN
         /\ invoked' = Append(invoked, idx)
         /\ enumLog' = Append(enumLog, [failed |-> ListingFails(resp),
                                        count |-> Len(versions),
                                        tags |-> RefCount(versions) - Len(versions)])
         /\ IF Len(versions) = 0
              THEN /\ attempted' = 0
                   /\ PushResult(buildSkipResult(kind, pkgName))
                   /\ UNCHANGED <<refs, vidx, tally, fsVars, retryVars>>
              ELSE /\ refs' = rs
                   /\ vidx' = 1
                   /\ tally' = ZeroTally
                   /\ attempted' = 1
                   /\ Len(rs) <= Budget
                   /\ pc' = "version"
                   /\ BeginTransfer(disk, resources, VersionDir(pkgName, rs[1].reference))
                   /\ UNCHANGED <<idx, results, attemptedLog>>
  /\ answer' = "none"
  /\ UNCHANGED <<kind, npmModule, exitCode, packages, returned, outputSet, output, summary, status, warned>>
  /\ UNCHANGED <<totalOk, totalBad, call, setupLog, app>>

\* One invocation of processPackageVersion by the retry executor.
npm_processPackageVersion ==
  /\ pc = "version"
  /\ kind = "npm"
  /\ \E m \in ManifestOutcomes :
     \E d \in IF m = "url" THEN DownloadOutcomes ELSE {"ok"} :
     \E u \in IF m = "url" /\ d = "ok" THEN MetadataOutcomes ELSE {"ok"} :
     \E p \in IF m = "url" /\ d = "ok" /\ u = "ok" THEN BOOLEAN ELSE {FALSE} :
       LET r == IF npmModule = "package.js"
                  THEN package_processPackageVersion(m, d, u, p)
                  ELSE processPackageVersion(m, d, u, p)
       IN
         /\ RetryCall(r.out)
         /\ answer' = Answer(m, d, u, p)
         /\ disk' = IF r.wrote THEN disk \cup {PackageDir(pkgName, refs[vidx].reference)} ELSE disk
         /\ resources' = IF r.tracked
                           THEN trackResource(resources, PackageDir(pkgName, refs[vidx].reference))
                           ELSE resources
  /\ UNCHANGED <<orchVars, invoked, enumLog, attempted, attemptedLog, totalOk, totalBad, call, setupLog, app>>

\* One invocation of performImageMigration by the retry executor.
container_performImageMigration ==
  /\ pc = "version"
  /\ kind = "container"
  /\ \E tool \in SkopeoOutcomes :
       /\ RetryCall(performImageMigration(tool))
       /\ answer' = tool
  /\ UNCHANGED <<orchVars, fsVars, invoked, enumLog, attempted, attemptedLog, totalOk,
                 totalBad, call, setupLog, app>>

\* onFailedAttempt with the migrator's onRetry observer: the npm observer
\* resets the workspace, the container observer only logs.
version_onFailedAttempt ==
  /\ pc = "version"
  /\ OnFailedAttempt
  /\ disk' = IF kind = "npm" THEN resetWorkspaceDisk(disk, curDir) ELSE disk
  /\ resources' = IF kind = "npm" THEN resetWorkspaceSet(resources, curDir) ELSE resources
  /\ answer' = "none"
  /\ UNCHANGED <<orchVars, invoked, enumLog, attempted, attemptedLog, totalOk, totalBad, call, setupLog, app>>

version_backoff ==
  /\ pc = "version"
  /\ RetrySleep
  /\ UNCHANGED <<orchVars, fsVars, ghostVars>>

\* withRetry returned: release the workspace (npm), tally the boolean, go on
\* with the next version / reference or return the package's result.
version_return ==
  /\ pc = "version"
  /\ rpc = "resolved"
  /\ LET success == rout.val
         t == IF kind = "container"
                THEN updateReferenceResults(tally, success, refs[vidx].isDigest)
                ELSE npmTally(tally, success)
         d == IF kind = "npm" THEN cleanupResourceDisk(disk, curDir) ELSE disk
         set == IF kind = "npm" THEN cleanupResourceSet(resources, curDir) ELSE resources
     IN
       /\ tally' = t
       /\ totalOk' = IF success THEN totalOk + 1 ELSE totalOk
       /\ totalBad' = IF success THEN totalBad ELSE totalBad + 1
       /\ IF vidx < Len(refs)
            THEN /\ vidx' = vidx + 1
                 /\ attempted' = attempted + 1
                 /\ answer' = "none"
                 /\ BeginTransfer(d, set, VersionDir(pkgName, refs[vidx + 1].reference))
                 /\ UNCHANGED <<pc, idx, results, attemptedLog>>
            ELSE /\ attempted' = attempted
                 /\ answer' = answer
                 /\ PushResult(packageResult(kind, pkgName, t))
                 /\ disk' = d
                 /\ resources' = set
                 /\ RetryIdle
                 /\ UNCHANGED vidx
  /\ UNCHANGED <<kind, npmModule, exitCode, packages, refs, returned, outputSet, output, summary, status, warned>>
  /\ UNCHANGED <<invoked, enumLog, call, setupLog, app>>

\* withRetry threw: migrateVersion releases the workspace in its finally
\* block and the error leaves migrateVersion and migratePackage; the catch of
\* migratePackagesWithContext marks the run failed and returns [].
version_throw ==
  /\ pc = "version"
  /\ rpc = "rejected"
  /\ disk' = IF kind = "npm" THEN cleanupResourceDisk(disk, curDir) ELSE disk
  /\ resources' = IF kind = "npm" THEN cleanupResourceSet(resources, curDir) ELSE resources
  /\ totalBad' = totalBad + 1
  /\ status' = "migration_failed"
  /\ returned' = <<>>
  /\ pc' = "done"
  /\ RetryIdle
  /\ UNCHANGED <<kind, npmModule, exitCode, packages, idx, refs, vidx, tally, results, outputSet, output, summary, warned>>
  /\ UNCHANGED <<invoked, enumLog, attempted, attemptedLog, totalOk, answer, call, setupLog, app>>

\* outputResults, then return results.
outputResults ==
  /\ pc = "output"
  /\ LET totals == Totals(results)
         js == JobStatus(totals)
     IN
       /\ summary' = generateActionSummary(kind, results)
       /\ outputSet' = TRUE
       /\ output' = results
       /\ status' = IF js = "all_failed" THEN "all_failed" ELSE status
       /\ warned' = (js = "warning")
  /\ returned' = results
  /\ pc' = "done"
  /\ UNCHANGED <<kind, npmModule, exitCode, packages, idx, refs, vidx, tally, results>>
  /\ UNCHANGED <<fsVars, retryVars, ghostVars>>

\* The "exit" handler of the process: cleanupAllResources. Removing the
\* run's own temporary paths is taken to succeed here; removals that fail are
\* the subject of SpecTracker.
onExit(d, set) == cleanupAllResources(d, set, SetToSeq(set), {})

\* The finally block of run (npm): cleanupTempDir(tempDir) when the
\* temporary directory was created; run has finished afterwards.
run_finally ==
  /\ pc = "done"
  /\ LET f == IF TempDir \in resources
                THEN cleanupTempDir(disk, resources, TempDir, "ok")
                ELSE [disk |-> disk, resources |-> resources, threw |-> FALSE]
     IN
       /\ disk' = f.disk
       /\ resources' = f.resources
  /\ pc' = "finished"
  /\ UNCHANGED <<kind, npmModule, exitCode, packages, idx, refs, vidx, tally, results,
                 returned, outputSet, output, summary, status, warned>>
  /\ UNCHANGED <<retryVars, ghostVars>>

\* The process ends after run and the "exit" handler runs. core.setFailed
\* has set the exit code to 1.
run_exit ==
  /\ pc = "finished"
  /\ LET e == onExit(disk, resources) IN
       /\ disk' = e.disk
       /\ resources' = e.resources
  /\ exitCode' = IF status # "none" THEN 1 ELSE 0
  /\ pc' = "exited"
  /\ UNCHANGED <<kind, npmModule, packages, idx, refs, vidx, tally, results, returned,
                 outputSet, output, summary, status, warned>>
  /\ UNCHANGED <<retryVars, ghostVars>>

\* SIGINT or SIGTERM while the run waits at an await of the migration: the
\* handler calls cleanupAllResources and process.exit(1), which runs the
\* "exit" handler, that is cleanupAllResources once more. The process is
\* gone afterwards: of its memory only the position at which it was
\* interrupted (idx, vidx, attemptNumber) is kept for inspection.
process_onSignal ==
  /\ pc \in {"package", "version"}
  /\ LET h == onExit(disk, resources)
         e == onExit(h.disk, h.resources)
     IN
       /\ disk' = e.disk
       /\ resources' = e.resources
  /\ exitCode' = 1
  /\ pc' = "exited"
  /\ refs' = <<>>
  /\ tally' = ZeroTally
  /\ results' = <<>>
  /\ rpc' = "idle"
  /\ opLog' = <<>>
  /\ onRetryLog' = <<>>
  /\ sleeps' = <<>>
  /\ rerr' = NoErr
  /\ rout' = Value(FALSE)
  /\ invoked' = <<>>
  /\ enumLog' = <<>>
  /\ attempted' = 0
  /\ attemptedLog' = <<>>
  /\ totalOk' = 0
  /\ totalBad' = 0
  /\ answer' = "none"
  /\ UNCHANGED <<kind, npmModule, packages, idx, vidx, returned, outputSet, output,
                 summary, status, warned, rcfg, attemptNumber, call, setupLog, app>>

Next ==
  \/ run
  \/ migratePackagesWithContext
  \/ migratePackage
  \/ npm_processPackageVersion
  \/ container_performImageMigration
  \/ version_onFailedAttempt
  \/ version_backoff
  \/ version_return
  \/ version_throw
  \/ outputResults
  \/ run_finally
  \/ run_exit
  \/ process_onSignal

Spec == Init /\ [][Next]_vars

\* ---------------------------------------------------------------------
\* Functions of the actions, each applied on its own to one argument
\* ---------------------------------------------------------------------
MaxTags == 2

\* The version lists parseVersions can be handed: every version has its
\* digest as name and no tag metadata, an empty tag list or some tags.
TaggedVersions(i) == {[name |-> i]} \cup {Version(i, t) : t \in 0..MaxTags}

ContainerVersionLists ==
  UNION {{vs \in [1..n -> UNION {TaggedVersions(i) : i \in 1..n}] :
            \A i \in 1..n : vs[i].name = i} :
         n \in 0..MaxTransfers}

\* The spellings of the type field in a packages payload ("": empty); a
\* package can also come without the field.
TypeSpellings == {"", "npm", "NPM", "container", "nuget"}

toLowerCase(t) == IF t = "NPM" THEN "npm" ELSE t

PayloadPackages(i) ==
  {[name |-> Names[i]]} \cup {[name |-> Names[i], type |-> t] : t \in TypeSpellings}

\* What JSON.parse(packagesJson) yields: an array of package objects, or
\* something that is not an array.
Payloads ==
  UNION {{[isArray |-> TRUE, items |-> ps] :
            ps \in {q \in [1..n -> UNION {PayloadPackages(i) : i \in 1..n}] :
                      \A i \in 1..n : q[i].name = Names[i]}} :
         n \in 0..MaxPkgs}
    \cup {[isArray |-> FALSE, items |-> <<>>]}

\* !pkg.type
NoType(pkg) == "type" \notin DOMAIN pkg \/ pkg.type = ""

parsePackagesInputMutant(packagesJson, packageType) ==
  LET keep(pkg) == NoType(pkg) \/ pkg.type = packageType IN
    IF ~packagesJson.isArray
      THEN Thrown(Err("Error", "Failed to parse packages input"))
      ELSE Value(SelectSeq(packagesJson.items, keep))

\* parsePackagesInput: the packages of the payload whose type is the
\* action's, whatever its case, or is missing; an error when the payload is
\* not an array.
parsePackagesInput(packagesJson, packageType) ==
  LET keep(pkg) == NoType(pkg) \/ toLowerCase(pkg.type) = toLowerCase(packageType) IN
    IF ~packagesJson.isArray
      THEN Thrown(Err("Error", "Failed to parse packages input"))
      ELSE Value(SelectSeq(packagesJson.items, keep))

\* ---------------------------------------------------------------------
\* NuGet repair step
\* ---------------------------------------------------------------------
MaxEntries == 4

filesToRemove == {"_rels/.rels", "[Content_Types].xml"}

EntryNames == filesToRemove \cup {"lib/a.dll"}

\* The archives handed to the repair: entries in central-directory order,
\* told apart by their position.
Archives ==
  UNION {{[i \in 1..n |-> [entryName |-> names[i], id |-> i]] : names \in [1..n -> EntryNames]} :
         n \in 0..MaxEntries}

\* What the source leaves to the zip library: whether getEntries() hands out
\* the library's own entry array (so that a deletion shifts the entries under
\* the running forEach) or a copy, and what deleting a name does that the
\* library no longer has indexed (nothing, or the splice of index -1).
ZipBuilds == [live : BOOLEAN, unknownName : {"nothing", "last entry"}]

\* The entry the library has indexed under a name: the last one read.
Indexed(entries, name) ==
  LET is == {i \in 1..Len(entries) : entries[i].entryName = name} IN
    entries[CHOOSE i \in is : \A j \in is : j <= i]

Without(list, e) ==
  LET keep(x) == x # e IN SelectSeq(list, keep)

\* zip.deleteFile(entryName): the library looks the entry up by name, removes
\* the entry it has indexed under it from the entry list and forgets the name.
deleteFile(zip, entryName, build) ==
  LET known == entryName \in zip.table
      e     == Indexed(zip.read, entryName)
      hit   == known /\ \E k \in 1..Len(zip.list) : zip.list[k] = e
  IN
    [zip EXCEPT
       !.list = IF hit THEN Without(zip.list, e)
                ELSE IF build.unknownName = "last entry" /\ Len(zip.list) > 0
                  THEN SubSeq(zip.list, 1, Len(zip.list) - 1)
                  ELSE zip.list,
       !.table = zip.table \ {entryName}]

\* The forEach of fixNuGetPackage from entry i on.
RECURSIVE forEachEntry(_, _, _, _)
forEachEntry(zip, i, seenPaths, build) ==
  IF i > Len(zip.read) THEN zip
  ELSE IF build.live /\ i > Len(zip.list) THEN forEachEntry(zip, i + 1, seenPaths, build)
  ELSE LET entry == IF build.live THEN zip.list[i] ELSE zip.read[i] IN
         IF entry.entryName \in filesToRemove /\ entry.entryName \in seenPaths
           THEN forEachEntry(deleteFile(zip, entry.entryName, build), i + 1, seenPaths, build)
           ELSE forEachEntry(zip, i + 1, seenPaths \cup {entry.entryName}, build)

\* fixNuGetPackage: open the archive, delete by name every later occurrence
\* of the two paths, write the archive back; returns true.
fixNuGetPackage(entries, build) ==
  LET zip == [read  |-> entries,
              list  |-> entries,
              table |-> {entries[i].entryName : i \in 1..Len(entries)}]
  IN [ok |-> TRUE, entries |-> forEachEntry(zip, 1, {}, build).list]

\* ---------------------------------------------------------------------
\* NuGet entry point
\* ---------------------------------------------------------------------
NugetSteps == <<"downloadPackage", "fixNuGetPackage", "pushPackage">>

\* processPackageVersion of the NuGet pipeline (and migrateVersion of the
\* NuGet entry point): download, repair, push inside one try; the first step
\* that fails lands in the catch, which returns false.
nuget_processPackageVersion(d, f, p) ==
  IF ~d THEN [out |-> Value(FALSE), steps |-> SubSeq(NugetSteps, 1, 1)]
  ELSE IF ~f THEN [out |-> Value(FALSE), steps |-> SubSeq(NugetSteps, 1, 2)]
  ELSE [out |-> Value(p), steps |-> NugetSteps]

\* What the registry and the tools do during one run of the NuGet action:
\* whether the setup throws and, per package, what migrateVersion returns for
\* each of its versions (none: the listing is empty or failed).
NugetRuns ==
  [setupThrows : BOOLEAN,
   versions : UNION {{v \in [1..n -> UNION {[1..k -> BOOLEAN] : k \in 0..MaxTransfers}] :
                        SumSeq([i \in 1..n |-> Len(v[i])]) <= MaxTransfers} :
                     n \in 0..MaxPkgs}]

Count(outcomes, b) == Cardinality({i \in 1..Len(outcomes) : outcomes[i] = b})

\* migratePackage of the NuGet action.
nuget_migratePackage(packageName, outcomes) ==
  IF Len(outcomes) = 0
    THEN [package |-> packageName, versionsSucceeded |-> 0, versionsFailed |-> 0,
          skipped |-> TRUE, reason |-> "No versions found"]
    ELSE [package |-> packageName,
          versionsSucceeded |-> Count(outcomes, TRUE),
          versionsFailed |-> Count(outcomes, FALSE)]

\* run of the NuGet action: the result output and whether core.setFailed
\* was called, which decides the exit code.
nuget_run(env) ==
  LET n == Len(env.versions)
      rs == [i \in 1..n |-> nuget_migratePackage(Names[i], env.versions[i])]
      threw == n > 0 /\ env.setupThrows
  IN
    [outputSet |-> ~threw,
     output |-> IF threw THEN <<>> ELSE rs,
     failed |-> threw,
     exitCode |-> IF threw THEN 1 ELSE 0]

\* ---------------------------------------------------------------------
\* The migration of a whole package list as a function of what happens to
\* each version
\* ---------------------------------------------------------------------
\* What can happen to one version (npm) or reference (container): migrated,
\* reported as failed, or (npm) an error that leaves migrateVersion.
TransferOutcomes(k) ==
  IF k = "npm"
    THEN {[isDigest |-> FALSE, out |-> o] : o \in {"ok", "failed", "thrown"}}
    ELSE {[isDigest |-> d, out |-> o] : d \in BOOLEAN, o \in {"ok", "failed"}}

\* Per package, the outcomes of its versions in listing order: n packages
\* with at most budget versions between them.
RECURSIVE MigrationsOf(_, _, _)
MigrationsOf(k, n, budget) ==
  IF n = 0 THEN {<<>>}
  ELSE UNION {{<<s>> \o rest : s \in [1..m -> TransferOutcomes(k)],
                               rest \in MigrationsOf(k, n - 1, budget - m)} :
              m \in 0..budget}

Migrations(k) == UNION {MigrationsOf(k, n, MaxTransfers) : n \in 1..MaxPkgs}

\* The loop of migratePackage / migrateReferences over the versions.
RECURSIVE tallyVersions(_, _, _)
tallyVersions(k, items, t) ==
  IF Len(items) = 0 THEN [threw |-> FALSE, tally |-> t]
  ELSE IF items[1].out = "thrown" THEN [threw |-> TRUE, tally |-> t]
  ELSE tallyVersions(k, Tail(items),
         IF k = "container"
           THEN updateReferenceResults(t, items[1].out = "ok", items[1].isDigest)
           ELSE npmTally(t, items[1].out = "ok"))

\* migratePackage as a function: the result it returns, or that it threw.
migratePackageFn(k, packageName, items) ==
  IF Len(items) = 0
    THEN [threw |-> FALSE, result |-> buildSkipResult(k, packageName)]
    ELSE LET f == tallyVersions(k, items, ZeroTally) IN
           [threw |-> f.threw, result |-> packageResult(k, packageName, f.tally)]

\* migratePackagesWithContext over a non-empty list as a function: the totals
\* of outputResults and the outcome of the run; an error of migratePackageFn
\* ends the loop in the catch block, before any total is computed.
migrateAll(k, versions) ==
  LET rs == [i \in 1..Len(versions) |-> migratePackageFn(k, Names[i], versions[i])]
      totals == Totals([i \in 1..Len(rs) |-> rs[i].result])
      js == JobStatus(totals)
  IN
    IF \E i \in 1..Len(rs) : rs[i].threw
      THEN [reported |-> FALSE, totals |-> Totals(<<>>), status |-> "migration_failed",
            warned |-> FALSE]
      ELSE [reported |-> TRUE, totals |-> totals,
            status |-> IF js = "all_failed" THEN "all_failed" ELSE "none",
            warned |-> js = "warning"]

\* ---------------------------------------------------------------------
\* The path of a version workspace, character by character
\* ---------------------------------------------------------------------
MaxChars == 3

\* A letter, a digit and the hyphen: package names and (pre-release)
\* versions may hold all three.
NameChars == {"a", "1", "-"}

Text == UNION {[1..m -> NameChars] : m \in 1..MaxChars}

\* Package names as the registry lists them: no hyphen at either end.
PackageNames == {t \in Text : t[1] # "-" /\ t[Len(t)] # "-"}

\* Version strings: a digit first, then possibly a hyphen and a pre-release
\* identifier.
VersionStrings == {t \in Text : t[1] = "1" /\ t[Len(t)] # "-"}

\* path.join(tempDir, `${packageName}-${version}`)
versionDirOf(tempDir, packageName, version) ==
  tempDir \o <<"/">> \o packageName \o <<"-">> \o version

\* The temporary directory of the run, one path for the whole run.
TempDirPath == <<"t">>

\* ---------------------------------------------------------------------
\* Registry endpoints
\* ---------------------------------------------------------------------
MaxLabels == 3

\* A URL or host string: its scheme ("" when it has none) and the labels
\* of its hostname, which the dots separate.
Url(scheme, host) == [scheme |-> scheme, host |-> host]

\* The empty string, which a registry-url input that is not given reads as.
EmptyString == Url("", <<>>)

Labels == {"api", "github", "com", "ghe"}

Hostnames == UNION {[1..m -> Labels] : m \in 1..MaxLabels}

\* The registry-url inputs: not given, or a custom registry.
CustomRegistryUrls == {EmptyString, Url("", <<"ghe", "com">>), Url("https", <<"api", "ghe", "com">>)}

\* hostname.startsWith("api.")
startsWithApi(hostname) == Len(hostname) > 1 /\ hostname[1] = "api"

getBaseHostnameMutant(apiUrl) == apiUrl.host

getBaseHostname(apiUrl) ==
  IF startsWithApi(apiUrl.host) THEN Tail(apiUrl.host) ELSE apiUrl.host

getNpmRegistryUrl(apiUrl, customRegistryUrl) ==
  IF customRegistryUrl # EmptyString THEN customRegistryUrl
  ELSE IF apiUrl.host = <<"api", "github", "com">>
    THEN Url("https", <<"npm", "pkg", "github", "com">>)
  ELSE IF startsWithApi(apiUrl.host) THEN Url("https", <<"npm">> \o Tail(apiUrl.host))
  ELSE Url("https", <<"npm">> \o apiUrl.host)

getNuGetRegistryUrl(apiUrl, customRegistryUrl) ==
  IF customRegistryUrl # EmptyString THEN customRegistryUrl
  ELSE IF apiUrl.host = <<"api", "github", "com">>
    THEN Url("https", <<"nuget", "pkg", "github", "com">>)
  ELSE IF startsWithApi(apiUrl.host) THEN Url("https", <<"nuget">> \o Tail(apiUrl.host))
  ELSE Url("https", <<"nuget">> \o apiUrl.host)

\* getRegistryUrl: the registry URL, or the error for an unsupported type.
getRegistryUrl(packageType, apiUrl, customRegistryUrl) ==
  IF customRegistryUrl # EmptyString THEN [threw |-> FALSE, url |-> customRegistryUrl]
  ELSE IF toLowerCase(packageType) = "npm"
    THEN [threw |-> FALSE, url |-> getNpmRegistryUrl(apiUrl, EmptyString)]
  ELSE IF toLowerCase(packageType) = "nuget"
    THEN [threw |-> FALSE, url |-> getNuGetRegistryUrl(apiUrl, EmptyString)]
  ELSE IF toLowerCase(packageType) = "container"
    THEN [threw |-> FALSE,
          url |-> IF apiUrl.host = <<"api", "github", "com">>
                    THEN Url("", <<"ghcr", "io">>)
                    ELSE Url("", <<"containers">> \o getBaseHostname(apiUrl))]
  ELSE [threw |-> TRUE, url |-> EmptyString]

InitPure ==
  /\ kind = "none"
  /\ npmModule = "none"
  /\ exitCode = Undef
  /\ packages = <<>>
  /\ pc = "pure"
  /\ idx = 0
  /\ refs = <<>>
  /\ vidx = 0
  /\ tally = ZeroTally
  /\ results = <<>>
  /\ returned = <<>>
  /\ outputSet = FALSE
  /\ output = <<>>
  /\ summary = <<>>
  /\ status = "none"
  /\ warned = FALSE
  /\ resources = {}
  /\ disk = {}
  /\ rcfg = RetryConfig([onRetry |-> FALSE])
  /\ rpc = "idle"
  /\ attemptNumber = 1
  /\ opLog = <<>>
  /\ onRetryLog = <<>>
  /\ sleeps = <<>>
  /\ rerr = NoErr
  /\ rout = Value(FALSE)
  /\ invoked = <<>>
  /\ enumLog = <<>>
  /\ attempted = 0
  /\ attemptedLog = <<>>
  /\ totalOk = 0
  /\ totalBad = 0
  /\ answer = "none"
  /\ call = NoCall
  /\ setupLog = <<>>
  /\ \/ app \in {Application("parseVersions", vs) : vs \in ContainerVersionLists}
     \/ app \in {Application("parsePackagesInput", [packagesJson |-> j, packageType |-> t]) :
                   j \in Payloads, t \in {"npm", "container"}}
     \/ app \in {Application("fixNuGetPackage", [entries |-> a, build |-> b]) :
                   a \in Archives, b \in ZipBuilds}
     \/ app \in {Application("nuget_run", env) : env \in NugetRuns}
     \/ app \in {Application("getRegistryUrl",
                               [packageType |-> t, apiUrl |-> Url("https", h),
                                customRegistryUrl |-> c]) :
                   t \in TypeSpellings, h \in Hostnames, c \in CustomRegistryUrls}
     \/ app \in {Application("setupVersionWorkspace", [packageName |-> n, version |-> v]) :
                   n \in PackageNames, v \in VersionStrings}
     \/ app \in {Application("migrateAll", [kind |-> k, versions |-> v]) :
                   k \in {"npm"}, v \in Migrations("npm")}
     \/ app \in {Application("migrateAll", [kind |-> k, versions |-> v]) :
                   k \in {"container"}, v \in Migrations("container")}
     \/ app \in {Application("processPackageVersion", [module |-> b, m |-> m, d |-> d, u |-> u, p |-> p]) :
                   b \in NpmModules, m \in ManifestOutcomes, d \in DownloadOutcomes,
                   u \in MetadataOutcomes, p \in BOOLEAN}
     \/ app \in {Application("nuget_processPackageVersion", [d |-> d, f |-> f, p |-> p]) :
                   d \in BOOLEAN, f \in BOOLEAN, p \in BOOLEAN}

\* The call of fn returns ret.
Apply(fn, ret) ==
  /\ pc = "pure"
  /\ app.fn = fn
  /\ ~app.done
  /\ app' = [app EXCEPT !.done = TRUE, !.ret = ret]
  /\ UNCHANGED <<orchVars, fsVars, retryVars, invoked, enumLog, attempted, attemptedLog,
                 totalOk, totalBad, answer, call, setupLog>>

apply_parseVersions == Apply("parseVersions", parseVersions(app.arg))

apply_parsePackagesInput ==
  Apply("parsePackagesInput", parsePackagesInput(app.arg.packagesJson, app.arg.packageType))

apply_fixNuGetPackage ==
  Apply("fixNuGetPackage", fixNuGetPackage(app.arg.entries, app.arg.build))

apply_nuget_run == Apply("nuget_run", nuget_run(app.arg))

apply_getRegistryUrl ==
  Apply("getRegistryUrl",
        getRegistryUrl(app.arg.packageType, app.arg.apiUrl, app.arg.customRegistryUrl))

apply_setupVersionWorkspace ==
  Apply("setupVersionWorkspace", versionDirOf(TempDirPath, app.arg.packageName, app.arg.version))

apply_migrateAll == Apply("migrateAll", migrateAll(app.arg.kind, app.arg.versions))

apply_processPackageVersion ==
  Apply("processPackageVersion",
        IF app.arg.module = "package.js"
          THEN package_processPackageVersion(app.arg.m, app.arg.d, app.arg.u, app.arg.p)
          ELSE processPackageVersion(app.arg.m, app.arg.d, app.arg.u, app.arg.p))

apply_nuget_processPackageVersion ==
  Apply("nuget_processPackageVersion",
        nuget_processPackageVersion(app.arg.d, app.arg.f, app.arg.p))

NextPure ==
  \/ apply_parseVersions
  \/ apply_parsePackagesInput
  \/ apply_fixNuGetPackage
  \/ apply_nuget_run
  \/ apply_getRegistryUrl
  \/ apply_setupVersionWorkspace
  \/ apply_migrateAll
  \/ apply_processPackageVersion
  \/ apply_nuget_processPackageVersion

SpecPure == InitPure /\ [][NextPure]_vars

\* ---------------------------------------------------------------------
\* Properties of withRetry
\* ---------------------------------------------------------------------
Last(s) == s[Len(s)]

IsRetryableThrow(o) == o.kind = "thrown" /\ o.err.class = "Error"

IsPermanentThrow(o) ==
  o.kind = "thrown" /\ o.err.class \in {"AuthenticationError", "PackageNotFoundError"}

AllRetryable(log) == \A i \in 1..Len(log) : IsRetryableThrow(log[i])

Settled == rpc \in {"resolved", "rejected"}

\* C8: an operation that throws a retryable error k times (k <= retries) and
\* then succeeds makes withRetry return the success value after exactly k+1
\* invocations, with onRetry called k times for attempts 1..k in order; the
\* executor never gives up on such an operation before the ceiling.
C8_RetryThenSuccess ==
  pc = "harness" =>
    /\ rpc = "resolved" =>
         /\ rout = Last(opLog)
         /\ rout.kind = "value"
         /\ AllRetryable(SubSeq(opLog, 1, Len(opLog) - 1))
         /\ Len(opLog) - 1 <= rcfg.retries
         /\ rcfg.onRetry => onRetryLog = [i \in 1..(Len(opLog) - 1) |-> i]
         /\ Len(sleeps) = Len(opLog) - 1
    /\ (rpc = "rejected" /\ AllRetryable(opLog)) => Len(opLog) > rcfg.retries

C8_Witness ==
  /\ pc = "harness"
  /\ rpc = "resolved"
  /\ Len(opLog) = 3
  /\ rcfg.onRetry
  /\ onRetryLog = <<1, 2>>

\* C9 (as amended): an operation that throws a permanent error is invoked
\* exactly once, onRetry is never called, no backoff delay is waited for, and
\* withRetry throws to the caller a plain Error carrying the message of the
\* operation's error.
C9_PermanentOnce ==
  (pc = "harness" /\ Len(opLog) >= 1 /\ IsPermanentThrow(opLog[1])) =>
    /\ Len(opLog) = 1
    /\ onRetryLog = <<>>
    /\ sleeps = <<>>
    /\ rpc = "rejected"
    /\ rout = Thrown(Err("Error", opLog[1].err.msg))

C9_Witness ==
  /\ pc = "harness"
  /\ rpc = "rejected"
  /\ Len(opLog) = 1
  /\ opLog[1].err.class = "AuthenticationError"
  /\ rcfg.onRetry

\* C9 as stated: the error thrown to the caller is the operation's error.
C9_RethrowsSameError ==
  (pc = "harness" /\ Len(opLog) >= 1 /\ IsPermanentThrow(opLog[1])) =>
    /\ Len(opLog) = 1
    /\ onRetryLog = <<>>
    /\ sleeps = <<>>
    /\ rpc = "rejected"
    /\ rout = opLog[1]

C10_Bounded ==
  pc = "harness" =>
    /\ Len(opLog) <= rcfg.retries + 1
    /\ (rpc = "rejected" /\ AllRetryable(opLog)) =>
         /\ Len(opLog) = rcfg.retries + 1
         /\ rout = Thrown(Last(opLog).err)

SetupFailed == status = "action_failed"

\* C1: over a non-empty package list the loop is never aborted: the migrate
\* function is invoked for every package and the reported result list holds
\* one PackageResult per input package, in input order.
C1_LoopNeverAborted ==
  (pc = "done" /\ Len(packages) > 0 /\ ~SetupFailed) =>
    /\ invoked = [i \in 1..Len(packages) |-> i]
    /\ outputSet
    /\ Len(output) = Len(packages)
    /\ \A i \in 1..Len(packages) : output[i].package = packages[i].name

\* C2: (npm) when a version's transfer still throws after the retry ceiling,
\* the version is counted as one failed version, the run goes on with the
\* remaining versions and migratePackage returns a result instead of throwing.
C2_VersionErrorContained ==
  [][(pc = "version" /\ kind = "npm" /\ rpc = "rejected" /\ Len(opLog) = rcfg.retries + 1) =>
       /\ pc' # "done"
       /\ status' = status
       /\ IF vidx < Len(refs)
            THEN tally'.failureCount = tally.failureCount + 1 /\ vidx' = vidx + 1
            ELSE /\ Len(results') = Len(results) + 1
                 /\ Last(results').failed = tally.failureCount + 1]_vars

\* C3: every PackageResult returned by migratePackage has succeeded + failed
\* equal to the number of version / reference transfers made for the package,
\* and the sum is zero exactly when the result is a skip.
C3_CountsMatchAttempts ==
  /\ Len(attemptedLog) = Len(results)
  /\ \A j \in 1..Len(results) :
       /\ results[j].succeeded + results[j].failed = attemptedLog[j]
       /\ (results[j].succeeded + results[j].failed = 0) <=> results[j].skipped

C3_Witness ==
  /\ kind = "container"
  /\ Len(results) = 2
  /\ results[1].skipped
  /\ results[2].succeeded = 1
  /\ results[2].failed = 2
  /\ attemptedLog = <<0, 3>>

NotSkipped(r) == ~r.skipped

C4_SkipResults ==
  /\ \A j \in 1..Len(results) :
       enumLog[j].count = 0 =>
         /\ results[j].succeeded = 0
         /\ results[j].failed = 0
         /\ results[j].skipped
         /\ results[j].reason = "No versions found"
         /\ attemptedLog[j] = 0
  /\ Totals(results).success = Totals(SelectSeq(results, NotSkipped)).success
  /\ Totals(results).failed = Totals(SelectSeq(results, NotSkipped)).failed

C4_SkipStep ==
  (Len(enumLog') = Len(enumLog) + 1 /\ Last(enumLog').count = 0) =>
    /\ UNCHANGED <<resources, disk, retryVars, totalOk, totalBad>>
    /\ Len(results') = Len(results) + 1
    /\ Totals(results').success = Totals(results).success
    /\ Totals(results').failed = Totals(results).failed

\* C4: a package whose enumeration returns zero versions gets the result
\* {succeeded 0, failed 0, skipped, "No versions found"}; no transfer is
\* attempted, no workspace allocated, and the succeeded / failed totals are
\* what they would be without the package.
C4_SkipIsNoOp == []C4_SkipResults /\ [][C4_SkipStep]_vars

C4_Witness ==
  /\ pc = "done"
  /\ kind = "npm"
  /\ Len(results) = 2
  /\ results[1].skipped
  /\ ~enumLog[1].failed
  /\ results[2].succeeded = 2
  /\ Totals(results).success = 2

C5_FailedListingSkips ==
  \A j \in 1..Len(enumLog) :
    enumLog[j].failed =>
      /\ enumLog[j].count = 0
      /\ j <= Len(results)
      /\ results[j].skipped
      /\ results[j].succeeded = 0
      /\ results[j].failed = 0

C5_ListingStep ==
  (Len(enumLog') = Len(enumLog) + 1 /\ Last(enumLog').failed) =>
    /\ status' = status
    /\ totalBad' = totalBad
    /\ IF idx < Len(packages) THEN pc' = "package" /\ idx' = idx + 1 ELSE pc' = "output"

\* C5: when listing the versions fails (on any page, with any error) the
\* enumerator returns an empty list instead of throwing: the package ends as
\* a skip result, nothing is counted as failed, and the run goes on with the
\* next package.
C5_EnumerationNeverThrows == []C5_FailedListingSkips /\ [][C5_ListingStep]_vars

C5_Witness ==
  /\ Len(enumLog) = 2
  /\ enumLog[1].failed
  /\ results[1].skipped
  /\ ~enumLog[2].failed
  /\ enumLog[2].count = 2
  /\ pc = "version"

Reported == pc = "done" /\ Len(packages) > 0 /\ outputSet

\* C6: the run outcome is decided by the aggregate totals alone: failed > 0
\* and succeeded = 0 marks the run failed; failed > 0 and succeeded > 0 only
\* warns; failed = 0 neither fails nor warns (also when all were skipped).
C6_OutcomeFromTotals ==
  Reported =>
    /\ Totals(results).success = totalOk
    /\ Totals(results).failed = totalBad
    /\ (status = "all_failed") <=> (totalBad > 0 /\ totalOk = 0)
    /\ warned <=> (totalBad > 0 /\ totalOk > 0)
    /\ totalBad = 0 => (status = "none" /\ ~warned)
    /\ status \in {"none", "all_failed"}

C6_Witness ==
  /\ Reported
  /\ warned
  /\ status = "none"
  /\ totalOk = 1
  /\ totalBad = 2

\* C7: the run is marked failed only when the aggregate has failed > 0 and
\* succeeded = 0; a run in which a version succeeded is never marked failed.
C7_FailedOnlyOnHardFailure ==
  (status # "none" /\ ~SetupFailed) => (totalBad > 0 /\ totalOk = 0)

\* ---------------------------------------------------------------------
\* Properties of the npm transfer pipeline
\* ---------------------------------------------------------------------
InTransfer == kind = "npm" /\ pc = "version"

TransientAnswers == {"500", "metadata", "publish failed"}

\* C11: (npm) a transient failure of a version's download, transform or
\* publish (a 5xx answer, a failing tool) reaches the retry executor as a
\* failed attempt, so that the version is attempted again.
C11_TransientRaised ==
  (InTransfer /\ answer \in TransientAnswers) => rpc = "failed"

\* C12: (npm) after the source registry answered the manifest or archive
\* request with 401 or 404 the version's transfer is over: the failure is not
\* handed to the retry executor as a failed attempt to be retried, and the
\* version was attempted once, without any backoff delay.
C12_PermanentNotRetried ==
  (InTransfer /\ answer \in {"401", "404"}) =>
    /\ rpc \in {"resolved", "rejected"}
    /\ sleeps = <<>>

\* C13: (npm) when the source answers 404 for the manifest or the archive the
\* transfer returns false instead of throwing, and the version is then
\* tallied as one failed version.
C13_NotFoundReturnsFalse ==
  (InTransfer /\ answer = "404") => (rpc = "resolved" /\ rout = Value(FALSE))

C14_ReturnsFalse ==
  (InTransfer /\ answer = "missing") =>
    /\ rpc = "resolved"
    /\ rout = Value(FALSE)
    /\ opLog[Len(opLog)] = Value(FALSE)

C14_CountedAsFailure ==
  (InTransfer /\ answer = "missing" /\ pc' # "exited") =>
    /\ tally'.failureCount = tally.failureCount + 1
    /\ tally'.successCount = tally.successCount
    /\ vidx = Len(refs) =>
          /\ Len(results') = Len(results) + 1
          /\ results'[Len(results')] =
               createPackageResult(pkgName, tally.successCount, tally.failureCount + 1, NoOptions)
          /\ ~results'[Len(results')].skipped

\* C14: (npm) a version that enumeration lists but the manifest has no entry
\* for makes the transfer return false without a retry; it is tallied as one
\* failed version and the package's result is not a skip.
C14_MissingManifestEntryFails == []C14_ReturnsFalse /\ [][C14_CountedAsFailure]_vars

\* Package [v1, v2]: v1 was published, v2 has no manifest entry: {1, 1}.
C14_Witness ==
  /\ kind = "npm"
  /\ pc \in {"package", "output"}
  /\ answer = "missing"
  /\ attemptedLog[Len(attemptedLog)] = 2
  /\ results[Len(results)].succeeded = 1
  /\ results[Len(results)].failed = 1
  /\ ~results[Len(results)].skipped

\* ---------------------------------------------------------------------
\* Properties of the resource tracker
\* ---------------------------------------------------------------------
\* C15: after cleanupAllResources the tracked set is empty and no path that
\* was tracked remains on disk (but for a path whose own removal raised the
\* I/O error); the call returns also when a removal fails.
C15_ReleaseAllLeavesNothing ==
  [][call'.op = "cleanupAllResources" =>
       /\ ~call'.threw
       /\ resources' = {}
       /\ \A path \in resources \ call'.failing : path \notin disk']_vars

\* C16: cleanupResource never throws to its caller, whatever rmSync does,
\* and its argument is not in the tracked set afterwards.
C16_ReleaseNeverFails ==
  [][call'.op = "cleanupResource" =>
       /\ ~call'.threw
       /\ call'.arg \notin resources']_vars

C17_TwiceIsOnce ==
  \A resource \in TrackerPaths :
    /\ trackResource(trackResource(resources, resource), resource)
         = trackResource(resources, resource)
    /\ resource \notin
         cleanupResource(disk, trackResource(trackResource(resources, resource), resource),
                         resource, "ok").resources

C17_TrackStep ==
  call'.op = "trackResource" =>
    /\ call'.ret = call'.arg
    /\ ~call'.threw
    /\ call'.arg \in resources'
    /\ resources' \ {call'.arg} = resources \ {call'.arg}
    /\ call'.was => resources' = resources
    /\ disk' = disk

\* C17: trackResource returns its argument and adds it to the tracked set;
\* tracking a path that is already tracked changes nothing, and one
\* cleanupResource removes a path tracked twice from the set.
C17_TrackIdempotent == []C17_TwiceIsOnce /\ [][C17_TrackStep]_vars

\* A path tracked while already tracked; the set holds it and nothing else.
C17_Witness ==
  /\ pc = "tracker"
  /\ call.op = "trackResource"
  /\ call.was
  /\ resources = {call.arg}

\* ---------------------------------------------------------------------
\* Properties of the process exit
\* ---------------------------------------------------------------------
Interrupted == pc = "exited" /\ exitCode = 1 /\ status = "none"

C18_ExitStep ==
  pc' = "exited" =>
    /\ resources' = {}
    /\ \A path \in resources : path \notin disk'
    /\ pc \in {"package", "version"} =>
          /\ exitCode' = 1
          /\ disk' = onExit(disk, resources).disk
          /\ resources' = onExit(disk, resources).resources

C18_NothingTrackedAfterExit ==
  pc = "exited" => (resources = {} /\ exitCode \in {0, 1})

curPackageDir == PackageDir(pkgName, refs[vidx].reference)

Inside(d, dir) == {path \in d : Under(path, dir)}

C19_WorkspaceExists ==
  (InTransfer /\ rpc = "call") =>
    /\ curDir \in disk
    /\ curDir \in resources
    /\ attemptNumber = 1 => Inside(disk, curDir) = {curDir}

C19_ReleaseStep ==
  (InTransfer /\ rpc \in {"resolved", "rejected"} /\ pc' # "exited") =>
    /\ Inside(disk', curDir) = {}
    /\ curDir \notin resources'

C20_FreshOnRetry ==
  (InTransfer /\ (rpc = "sleep" \/ (rpc = "call" /\ attemptNumber > 1))) =>
    /\ curDir \in disk
    /\ curDir \in resources
    /\ Inside(disk, curDir) = {curDir}

C20_ObserverStep ==
  (InTransfer /\ rpc = "failed" /\ pc' # "exited") =>
    /\ onRetryLog' = Append(onRetryLog, attemptNumber)
    /\ Inside(disk', curDir) = {curDir}
    /\ disk' \ {curDir} = disk \ Inside(disk, curDir)
    /\ curDir \in resources'

\* C20: (npm) after every failed attempt the onRetry observer removes the
\* version's workspace with all it holds and creates it again, tracked; every
\* attempt after the first starts in an existing, empty, tracked workspace.
C20_WorkspaceResetOnRetry == []C20_FreshOnRetry /\ [][C20_ObserverStep]_vars

\* The second attempt is about to start; the first one had extracted the
\* package (its directory is still in the tracked set) and nothing of it is
\* on disk.
C20_Witness ==
  /\ InTransfer
  /\ rpc = "call"
  /\ attemptNumber = 2
  /\ curPackageDir \in resources
  /\ curPackageDir \notin disk
  /\ curDir \in disk

\* ---------------------------------------------------------------------
\* Properties of the entry points
\* ---------------------------------------------------------------------
\* The npm run is between its setup and its finally block.
Migrating == kind = "npm" /\ pc \in {"start", "package", "version", "output"}

NpmrcWrites == Cardinality({i \in 1..Len(setupLog) : setupLog[i] = "setupNpmAuthentication"})

C21_CredentialFilePresent ==
  /\ NpmrcWrites <= 1
  /\ kind = "container" => NpmrcWrites = 0 /\ NpmrcPath \notin disk
  /\ (kind = "npm" /\ invoked # <<>>) => NpmrcWrites = 1
  /\ Migrating => /\ NpmrcWrites = 1
                  /\ NpmrcPath \in disk
                  /\ NpmrcPath \in resources

C21_MigrationStep ==
  Migrating => /\ setupLog' = setupLog
               /\ pc' # "exited" => NpmrcPath \in disk' /\ NpmrcPath \in resources'

\* C21: (npm) the credential file is written exactly once, before the first
\* version of the first package is processed, and from then until the last
\* package has been migrated it stays on disk and tracked: no release of a
\* version workspace and no reset before a retry rewrites or removes it.
C21_CredentialFileWrittenOnce == []C21_CredentialFilePresent /\ [][C21_MigrationStep]_vars

C21_Witness ==
  /\ kind = "npm"
  /\ pc = "output"
  /\ Len(results) = 2
  /\ totalOk >= 1
  /\ totalBad >= 1
  /\ NpmrcWrites = 1
  /\ NpmrcPath \in disk
  /\ disk = {TempDir, NpmrcPath}

\* ---------------------------------------------------------------------
\* Properties of the container references
\* ---------------------------------------------------------------------
Applied(fn) == pc = "pure" /\ app.fn = fn /\ app.done

IsDigestRef(r) == r.isDigest

IsTagRef(r) == ~r.isDigest

RECURSIVE AllTags(_)
AllTags(vs) ==
  IF Len(vs) = 0 THEN <<>>
  ELSE (IF "tags" \in DOMAIN vs[1] THEN vs[1].tags ELSE <<>>) \o AllTags(Tail(vs))

\* C22: parseVersions yields one digest reference per version (the version
\* name, isDigest true) and one tag reference per tag (isDigest false), in
\* the order of the listing: |versions| + total tags references in all; a
\* version whose tag list is empty or missing contributes its digest only.
C22_OneDigestPerVersionOneRefPerTag ==
  Applied("parseVersions") =>
    LET vs   == app.arg
        out  == app.ret
        tags == AllTags(vs)
    IN
      /\ Len(out) = Len(vs) + Len(tags)
      /\ SelectSeq(out, IsDigestRef)
           = [i \in 1..Len(vs) |-> [reference |-> vs[i].name, isDigest |-> TRUE]]
      /\ SelectSeq(out, IsTagRef)
           = [j \in 1..Len(tags) |-> [reference |-> tags[j], isDigest |-> FALSE]]
      /\ \A i \in 1..Len(vs) :
           ("tags" \notin DOMAIN vs[i] \/ vs[i].tags = <<>>) =>
             \A k \in 1..Len(out) :
               out[k].reference \in {10 * i + j : j \in 1..MaxTags} => out[k].isDigest

\* The listing [{sha256:abc, tags [v1, v2]}, {sha256:def, tags []}] gives four
\* references.
C22_Witness ==
  /\ Applied("parseVersions")
  /\ app.arg = <<Version(1, 2), Version(2, 0)>>
  /\ Len(app.ret) = 4
  /\ Len(SelectSeq(app.ret, IsDigestRef)) = 2
  /\ Len(SelectSeq(app.ret, IsTagRef)) = 2

Buckets(t) ==
  /\ t.successCount = t.digestsSucceeded + t.tagsSucceeded
  /\ t.failureCount = t.digestsFailed + t.tagsFailed

C23_TallyAddsUp ==
  (kind = "container" /\ pc = "version") =>
    /\ Buckets(tally)
    /\ tally.digestsSucceeded + tally.digestsFailed
         = Cardinality({k \in 1..attempted - 1 : refs[k].isDigest})
    /\ tally.tagsSucceeded + tally.tagsFailed
         = Cardinality({k \in 1..attempted - 1 : ~refs[k].isDigest})

C23_ResultsAddUp ==
  kind = "container" =>
    \A j \in 1..Len(results) :
      LET r == results[j] IN
        /\ r.succeeded = Or0(r.digestsSucceeded) + Or0(r.tagsSucceeded)
        /\ r.failed = Or0(r.digestsFailed) + Or0(r.tagsFailed)
        /\ Or0(r.digestsSucceeded) + Or0(r.digestsFailed) = enumLog[j].count
        /\ Or0(r.tagsSucceeded) + Or0(r.tagsFailed) = enumLog[j].tags
        /\ ~r.skipped => r.digestsSucceeded # Undef /\ r.tagsSucceeded # Undef

\* C23: (container) after every reference, and in the returned result,
\* succeeded = digestsSucceeded + tagsSucceeded and failed = digestsFailed +
\* tagsFailed; in the returned result digestsSucceeded + digestsFailed is the
\* number of versions and tagsSucceeded + tagsFailed the number of tags.
C23_BucketsPartitionTheCounts == C23_TallyAddsUp /\ C23_ResultsAddUp

C23_Witness ==
  /\ kind = "container"
  /\ Len(results) >= 1
  /\ results[1].digestsSucceeded = 1
  /\ results[1].digestsFailed = 0
  /\ results[1].tagsSucceeded = 1
  /\ results[1].tagsFailed = 1
  /\ results[1].succeeded = 2
  /\ results[1].failed = 1

CopyFailures == SkopeoOutcomes \ {"ok"}

\* The copy tool failed for the reference at hand.
CopyFailed == kind = "container" /\ pc = "version" /\ answer \in CopyFailures

C24_ReturnsFalse ==
  /\ CopyFailed => /\ rpc = "resolved"
                   /\ rout = Value(FALSE)
                   /\ Len(opLog) = 1
  /\ kind = "container" => rpc \notin {"failed", "sleep", "rejected"}
  /\ kind = "container" =>
       \A j \in 1..Len(results) : attemptedLog[j] = enumLog[j].count + enumLog[j].tags

C24_CountStep ==
  (CopyFailed /\ pc' # "exited") =>
    /\ tally' = IF refs[vidx].isDigest
                  THEN [tally EXCEPT !.failureCount = @ + 1, !.digestsFailed = @ + 1]
                  ELSE [tally EXCEPT !.failureCount = @ + 1, !.tagsFailed = @ + 1]
    /\ status' = status
    /\ IF vidx < Len(refs)
         THEN /\ pc' = "version"
              /\ vidx' = vidx + 1
              /\ rpc' = "call"
              /\ attempted' = attempted + 1
         ELSE /\ Len(results') = Len(results) + 1
              /\ Last(results').failed = tally.failureCount + 1

\* C24: (container) a failure of the copy tool, whatever its classification
\* (unauthorized, not found, other), makes the transfer return false without
\* throwing; the reference is counted once, in the failed bucket of its own
\* kind, and every remaining reference is still attempted: a failed digest
\* does not keep its tags from being attempted.
C24_CopyFailureCountedOnce == []C24_ReturnsFalse /\ [][C24_CountStep]_vars

C24_Witness ==
  /\ kind = "container"
  /\ pc = "version"
  /\ answer = "unauthorized"
  /\ ~refs[vidx].isDigest
  /\ refs[1].isDigest
  /\ vidx = 3
  /\ tally.digestsFailed = 1
  /\ tally.tagsSucceeded = 1
  /\ tally.failureCount = 1

\* C25: with an empty package list run emits the empty result list at once:
\* the migrate function is never invoked, no tool or credential is set up,
\* nothing is created or tracked and the run is not marked failed.
C25_EmptyListReportedAtOnce ==
  Len(packages) = 0 =>
    /\ pc \in {"run", "done", "finished", "exited"}
    /\ pc \in {"done", "finished", "exited"} => outputSet /\ output = <<>>
    /\ invoked = <<>>
    /\ opLog = <<>>
    /\ setupLog = <<>>
    /\ disk = {}
    /\ resources = {}
    /\ status = "none"
    /\ exitCode \in {Undef, 0}

C25_Witness ==
  /\ kind \in {"npm", "container"}
  /\ Len(packages) = 0
  /\ pc = "exited"
  /\ exitCode = 0
  /\ outputSet
  /\ output = <<>>
  /\ setupLog = <<>>

\* ---------------------------------------------------------------------
\* Properties of the packages input
\* ---------------------------------------------------------------------
ParsedArray == Applied("parsePackagesInput") /\ app.arg.packagesJson.isArray

\* The package is of the action's type, or of no type.
OfType(pkg, t) ==
  \/ "type" \notin DOMAIN pkg
  \/ pkg.type = ""
  \/ pkg.type \in (IF t = "npm" THEN {"npm", "NPM"} ELSE {t})

Named(entries, name) == {i \in 1..Len(entries) : entries[i].entryName = name}

IsOtherEntry(e) == e.entryName \notin filesToRemove

\* C27: after the repair each of _rels/.rels and [Content_Types].xml that
\* occurred in the archive occurs exactly once, the entry kept being its
\* first occurrence, however many duplicates there were; every other entry
\* is unchanged.
C27_FirstOccurrenceKept ==
  Applied("fixNuGetPackage") =>
    LET before == app.arg.entries
        after  == app.ret.entries
    IN
      /\ app.ret.ok
      /\ \A name \in filesToRemove :
           Named(before, name) # {} =>
             /\ Cardinality(Named(after, name)) = 1
             /\ \A k \in Named(after, name) :
                  \A i \in Named(before, name) : after[k].id <= before[i].id
      /\ SelectSeq(after, IsOtherEntry) = SelectSeq(before, IsOtherEntry)

\* The versions of the run that migrateVersion reported as b.
Versions(env, b) == SumSeq([i \in 1..Len(env.versions) |-> Count(env.versions[i], b)])

\* C28: (NuGet entry point) the per-package results carry the counts of
\* succeeded and failed versions, and the run ends failed (non-zero exit
\* code) when at least one version failed and none succeeded.
C28_HardFailureEndsFailed ==
  (Applied("nuget_run") /\ ~app.arg.setupThrows) =>
    /\ app.ret.outputSet
    /\ Len(app.ret.output) = Len(app.arg.versions)
    /\ \A i \in 1..Len(app.ret.output) :
         /\ app.ret.output[i].versionsSucceeded = Count(app.arg.versions[i], TRUE)
         /\ app.ret.output[i].versionsFailed = Count(app.arg.versions[i], FALSE)
    /\ (Versions(app.arg, FALSE) > 0 /\ Versions(app.arg, TRUE) = 0) => app.ret.exitCode # 0

\* ---------------------------------------------------------------------
\* Properties of one attempt of a pipeline
\* ---------------------------------------------------------------------
\* The steps of an attempt are the first k steps of the pipeline, where the
\* first k - 1 succeeded and step k failed or is the last one.
RunsUpTo(made, pipeline, ok) ==
  /\ Len(made) >= 1
  /\ made = SubSeq(pipeline, 1, Len(made))
  /\ \A k \in 1..Len(made) - 1 : ok[k]
  /\ Len(made) < Len(pipeline) => ~ok[Len(made)]

C29_NpmInOrder ==
  Applied("processPackageVersion") =>
    LET a == app.arg
        ok == <<a.m = "url", a.d = "ok", a.u = "ok", a.p>>
    IN
      /\ RunsUpTo(app.ret.steps, NpmSteps, ok)
      /\ (app.ret.out.kind = "value" /\ app.ret.out.val) <=> \A k \in 1..4 : ok[k]

C29_NugetInOrder ==
  Applied("nuget_processPackageVersion") =>
    LET a == app.arg
        ok == <<a.d, a.f, a.p>>
    IN
      /\ RunsUpTo(app.ret.steps, NugetSteps, ok)
      /\ app.ret.out = Value(\A k \in 1..3 : ok[k])

\* C29: within one attempt of the module (npm) and binary (NuGet) pipelines
\* the steps run strictly in the order download, transform, publish, and a
\* step is not executed when an earlier one failed.
C29_StepsInOrder == C29_NpmInOrder /\ C29_NugetInOrder

C29_Witness ==
  /\ Applied("processPackageVersion")
  /\ app.arg.m = "url"
  /\ app.arg.d = "ok"
  /\ app.arg.u = "throw"
  /\ app.arg.p
  /\ app.ret.steps = <<"fetchPackageManifest", "downloadAndExtractPackage", "updatePackageMetadata">>

\* ---------------------------------------------------------------------
\* Properties of the onRetry observer
\* ---------------------------------------------------------------------
\* C30: withRetry calls onRetry only before a retry sleep: once it has
\* settled, onRetry was called as many times as the operation was invoked
\* again; when the operation fails on every attempt, onRetry is called
\* retries times and not after the final failed attempt.
C30_OnRetryOnlyBeforeSleep ==
  (pc = "harness" /\ rcfg.onRetry /\ Settled) =>
    /\ Len(onRetryLog) = Len(opLog) - 1
    /\ Len(onRetryLog) = Len(sleeps)
    /\ (rpc = "rejected" /\ AllRetryable(opLog)) => Len(onRetryLog) = rcfg.retries

Finished == kind = "npm" /\ Len(packages) > 0 /\ pc = "finished"

Perms(n) == {f \in [1..n -> 1..n] : \A i, j \in 1..n : f[i] = f[j] => i = j}

\* C33: the totals are independent of the order: for every permutation of
\* the package list and every permutation of a package's versions, with the
\* same outcome for every version, the totals of succeeded and failed
\* versions and of skipped packages, and the outcome of the run, are the same.
C33_TotalsOrderIndependent ==
  Applied("migrateAll") =>
    LET k == app.arg.kind
        v == app.arg.versions
        n == Len(v)
    IN
      /\ \A f \in Perms(n) : migrateAll(k, [i \in 1..n |-> v[f[i]]]) = app.ret
      /\ \A i \in 1..n : \A g \in Perms(Len(v[i])) :
           migrateAll(k, [v EXCEPT ![i] = [j \in 1..Len(v[i]) |-> v[i][g[j]]]]) = app.ret
      /\ \A f \in Perms(n) : \A i \in 1..n : \A g \in Perms(Len(v[f[i]])) :
           migrateAll(k, [[h \in 1..n |-> v[f[h]]] EXCEPT
                            ![i] = [j \in 1..Len(v[f[i]]) |-> v[f[i]][g[j]]]]) = app.ret

C33_Witness ==
  /\ Applied("migrateAll")
  /\ app.arg.kind = "npm"
  /\ Len(app.arg.versions) = 2
  /\ Len(app.arg.versions[1]) = 0
  /\ Len(app.arg.versions[2]) = 3
  /\ app.arg.versions[2][1].out = "failed"
  /\ app.arg.versions[2][2].out = "ok"
  /\ app.arg.versions[2][3].out = "ok"
  /\ app.ret.reported
  /\ app.ret.totals = [packages |-> 2, success |-> 2, failed |-> 1, skipped |-> 1]
  /\ app.ret.warned

\* C34: workspace paths are unique per unit of work: no other (package
\* name, version) pair of the run maps to the workspace path of this one.
C34_WorkspacePathsUnique ==
  Applied("setupVersionWorkspace") =>
    \A n \in PackageNames : \A v \in VersionStrings :
      (n # app.arg.packageName \/ v # app.arg.version) =>
        versionDirOf(TempDirPath, n, v) # app.ret

\* The hostname with one leading "api." removed.
WithoutLeadingApi(h) == IF Len(h) > 1 /\ h[1] = "api" THEN SubSeq(h, 2, Len(h)) ELSE h

\* The registry of a kind: on the public host, and the subdomain elsewhere.
PublicRegistry(t) ==
  IF t = "container" THEN Url("", <<"ghcr", "io">>) ELSE Url("https", <<t, "pkg", "github", "com">>)

Subdomain(t) == IF t = "container" THEN Url("", <<"containers">>) ELSE Url("https", <<t>>)

\* C35: getRegistryUrl returns a non-empty explicit override unchanged for
\* every kind; otherwise the public API host api.github.com gives the public
\* registry of the kind (ghcr.io for containers) and any other host gives the
\* kind's subdomain (containers., npm., nuget.) followed by the hostname with
\* one leading "api." removed.
C35_RegistryUrlDerivation ==
  Applied("getRegistryUrl") =>
    LET a == app.arg
        t == toLowerCase(a.packageType)
        h == a.apiUrl.host
    IN
      /\ a.customRegistryUrl # EmptyString =>
           app.ret = [threw |-> FALSE, url |-> a.customRegistryUrl]
      /\ (a.customRegistryUrl = EmptyString /\ t \in {"npm", "nuget", "container"}) =>
           /\ ~app.ret.threw
           /\ h = <<"api", "github", "com">> => app.ret.url = PublicRegistry(t)
           /\ h # <<"api", "github", "com">> =>
                app.ret.url = Url(Subdomain(t).scheme, Subdomain(t).host \o WithoutLeadingApi(h))

C35_Witness ==
  /\ Applied("getRegistryUrl")
  /\ app.arg.packageType = "container"
  /\ app.arg.customRegistryUrl = EmptyString
  /\ app.arg.apiUrl.host = <<"api", "api", "ghe">>
  /\ app.ret.url = Url("", <<"containers", "api", "ghe">>)

\* A path that is the workspace of a version.
IsVersionDir(path) == path.pkg # "" /\ path.sub = ""

Workspaces == {path \in disk : IsVersionDir(path)}

\* Transfers begun so far in the run, and those whose outcome is tallied.
Begun == SumSeq(attemptedLog) + (IF pc = "version" THEN attempted ELSE 0)

Tallied == totalOk + totalBad

\* C37: transfers are strictly sequential: at most one transfer is in
\* flight and at most one version workspace exists at any time, that of the
\* transfer in flight; a version starts only when every earlier one is
\* tallied and its workspace released, and a package only when the result of
\* every earlier package is recorded.
C37_TransfersSequential ==
  /\ Cardinality(Workspaces) <= 1
  /\ Workspaces # {} => (pc = "version" /\ Workspaces = {curDir})
  /\ pc = "version" => (Begun = Tallied + 1 /\ Len(results) = idx - 1)
  /\ pc = "package" => (Begun = Tallied /\ Len(results) = idx - 1 /\ Workspaces = {})

C37_Witness ==
  /\ pc = "version"
  /\ kind = "npm"
  /\ idx = 2
  /\ Len(results) = 1
  /\ Tallied = 2
  /\ Begun = 3
  /\ Workspaces = {VersionDir("b", 1)}

\* C38: the tracked set does not grow with the work done: a path of a
\* version (its workspace, its extracted package directory) is tracked only
\* while that version is being migrated.
C38_NothingOfAFinishedVersionTracked ==
  \A path \in resources :
    path.pkg # "" => (pc = "version" /\ Under(path, curDir))

\* The listing of versions was tried for every package of a non-empty list
\* and failed for each.
EveryListingFailed ==
  /\ Len(packages) > 0
  /\ Len(enumLog) = Len(packages)
  /\ \A i \in 1..Len(enumLog) : enumLog[i].failed

\* C39: a run in which the enumeration of versions fails for every package
\* reports one skipped result per package, with no version succeeded and none
\* failed, and ends as a success: it is not marked failed, it gets no
\* partial-failure warning and the process exits with code 0.
C39_AllListingsFailedIsSuccess ==
  (EveryListingFailed /\ pc \in {"done", "finished", "exited"}) =>
    /\ outputSet
    /\ Len(output) = Len(packages)
    /\ \A i \in 1..Len(output) :
         /\ output[i].package = packages[i].name
         /\ output[i].skipped
         /\ output[i].succeeded = 0
         /\ output[i].failed = 0
    /\ totalOk = 0
    /\ totalBad = 0
    /\ status = "none"
    /\ ~warned
    /\ pc = "exited" => exitCode = 0

C39_Witness ==
  /\ EveryListingFailed
  /\ pc = "exited"
  /\ Len(packages) = 2
  /\ enumLog[1].count = 0
  /\ Len(output) = 2
  /\ output[1].skipped
  /\ output[2].skipped
  /\ status = "none"
  /\ exitCode = 0

====
